---- MODULE Spec2Model ----
(***************************************************************************)
(* QAMemnet (deeppavlov/models/ranking/qa_memnet.py): the computation      *)
(* graph built by the constructor, the train/predict/save/load facade, the *)
(* contrastive loss and the last-timestep selectors.                       *)
(*                                                                         *)
(* Tensors are sequences: a batch is a sequence of rows, a row of an       *)
(* encoder output a sequence of timesteps, a timestep a sequence of        *)
(* features.  Reals are fixed-point integers.  An optional Python value is *)
(* the empty sequence (None) or a one-element sequence.                    *)
(***************************************************************************)
EXTENDS Integers, Sequences, FiniteSets, TLC

VARIABLES args, base, self, weights, files, ret, fn

vars == <<args, base, self, weights, files, ret, fn>>

(***************************************************************************)
(* Bounds of the model                                                     *)
(***************************************************************************)
MaxLayers == 2
MaxDlrs == 2
MaxLstmDim == 2
MaxRate == 1
VocSiz == 2
EmbDim == 1
SeqLen == 2
WMod == 2
MaxBatch == 3
Scale == 4
MaxBase == 3

NoneV == <<>>
Some(x) == <<x>>

Paths == {"p"}

RECURSIVE SumSeq(_)
SumSeq(s) == IF s = <<>> THEN 0 ELSE s[1] + SumSeq(Tail(s))

Max2(x, y) == IF x >= y THEN x ELSE y

Rev(s) == [i \in 1..Len(s) |-> s[Len(s) + 1 - i]]

\* Op applied to the value of v, which is evaluated once.
With(v, Op(_)) == CHOOSE r \in {Op(x) : x \in {v}} : TRUE

(***************************************************************************)
(* __init__, lines 59-64: width of the full representation                 *)
(***************************************************************************)
dense_dim(a) ==
  LET d0 == a.lstm_dim
      d1 == IF a.pool THEN d0 * 3 ELSE d0
  IN IF a.bdr THEN d1 * 2 ELSE d1

(***************************************************************************)
(* build_embedder                                                          *)
(***************************************************************************)
embedding_trainable_always(voc_siz) == TRUE

embedding_trainable(voc_siz) == IF voc_siz # NoneV THEN FALSE ELSE TRUE

\* Embedding(voc_siz, emb_dim) allocates a voc_siz x emb_dim table when it is
\* applied to the input; with voc_siz = None there is no table to allocate.
build_embedder(seqlen, voc_siz, weighted, transformed, emb_dim, prefix) ==
  [err |-> IF voc_siz = NoneV THEN "ValueError" ELSE "none",
   name |-> prefix \o "_embedding_model",
   embedding |-> [name |-> "embedding", input_dim |-> voc_siz, output_dim |-> emb_dim,
                  input_length |-> seqlen, trainable |-> embedding_trainable(voc_siz)],
   post |-> (IF transformed THEN <<"Dense", "LeakyReLU">> ELSE <<>>)
            \o (IF weighted THEN <<"Embedding", "Reshape", "softmax", "Reshape", "MulLayer">>
                ELSE <<>>),
   output_shape |-> <<"None", seqlen, emb_dim>>]

(***************************************************************************)
(* build_rnn_encoder                                                       *)
(***************************************************************************)
Cell(lstm, cudnn) ==
  IF lstm THEN (IF cudnn THEN "CuDNNLSTM" ELSE "LSTM")
  ELSE (IF cudnn THEN "CuDNNGRU" ELSE "GRU")

\* dropout_args is the pair <<dropout, recurrent_dropout>> handed to the cell,
\* or None when the cell is built without them.
rnn_layer_dropout_always(bidirectional, cudnn, cell, lstm_dim, dp, rdp) ==
  [wrapper |-> IF bidirectional THEN "Bidirectional" ELSE "none", cell |-> cell,
   units |-> lstm_dim, return_sequences |-> TRUE, dropout_args |-> Some(<<dp, rdp>>)]

rnn_layer(bidirectional, cudnn, cell, lstm_dim, dp, rdp) ==
  IF bidirectional
  THEN [wrapper |-> "Bidirectional", cell |-> cell, units |-> lstm_dim,
        return_sequences |-> TRUE, dropout_args |-> NoneV]
  ELSE IF cudnn
       THEN [wrapper |-> "none", cell |-> cell, units |-> lstm_dim,
             return_sequences |-> TRUE, dropout_args |-> NoneV]
       ELSE [wrapper |-> "none", cell |-> cell, units |-> lstm_dim,
             return_sequences |-> TRUE, dropout_args |-> Some(<<dp, rdp>>)]

\* get_last_step is assigned inside the loop over the layers only.
select_last_step(bidirectional, layers) ==
  IF layers = 0 THEN "unbound"
  ELSE IF bidirectional THEN "last_timestep_rev" ELSE "last_timestep"

rnn_width(in_width, bidirectional, lstm_dim, layers) ==
  IF layers = 0 THEN in_width
  ELSE IF bidirectional THEN 2 * lstm_dim ELSE lstm_dim

build_rnn_encoder(input_shape, return_sequences, bidirectional, lstm_dim, prefix, rdp, dp, layers, lstm, cudnn, use_pool) ==
  LET cell == Cell(lstm, cudnn)
      T == input_shape[2]
      w == rnn_width(input_shape[3], bidirectional, lstm_dim, layers)
      get_last_step == select_last_step(bidirectional, layers)
      out == IF ~return_sequences /\ use_pool
             THEN [is_list |-> TRUE, items |-> <<"concat", "last", "mean", "maxp">>,
                   shapes |-> << <<"None", 3 * w>>, <<"None", w>>, <<"None", w>>,
                                 <<"None", w>> >>]
             ELSE IF ~return_sequences
                  THEN [is_list |-> FALSE, items |-> <<"last">>,
                        shapes |-> << <<"None", w>> >>]
                  ELSE [is_list |-> FALSE, items |-> <<"rnn">>,
                        shapes |-> << <<"None", T, w>> >>]
  IN [err |-> IF ~return_sequences /\ get_last_step = "unbound"
              THEN "UnboundLocalError" ELSE "none",
      name |-> prefix \o "_lstm_encoder",
      layers |-> [li \in 1..layers |-> rnn_layer(bidirectional, cudnn, cell, lstm_dim, dp, rdp)],
      get_last_step |-> get_last_step,
      out |-> out]

\* Model.output_shape[0]: the first output's shape when the model has a list
\* of outputs, the (None) batch dimension of the only shape otherwise.
output_shape_0(mod) == IF mod.out.is_list THEN Some(mod.out.shapes[1]) ELSE NoneV

(***************************************************************************)
(* get_qa_memnet_model                                                     *)
(***************************************************************************)
\* for _ in range(layers): dns1 = Dense(self.dense_dim, activation='relu')(dns1)
RECURSIVE dense_stack(_, _, _)
dense_stack(n, width, units) ==
  IF n = 0 THEN width ELSE dense_stack(n - 1, units, units)

dense_comb(layers, encoder_ctx, a) ==
  LET shp == output_shape_0(encoder_ctx)
      in_w == IF shp = NoneV THEN 0 ELSE shp[1][Len(shp[1])]
      cnc1 == in_w + in_w
  IN [err |-> IF shp = NoneV THEN "AssertionError" ELSE "none",
      name |-> "merge_model",
      input_width |-> in_w,
      layers |-> <<"BatchNormalization", "Dropout">> \o [i \in 1..layers |-> "Dense"],
      output_width |-> dense_stack(layers, cnc1, dense_dim(a))]

\* A tensor of the graph: which input it derives from, which view of the
\* encoding it is, whether it went through the merge head, and its width.
Tensor(src, view, cond, width) ==
  [src |-> src, view |-> view, cond |-> cond, width |-> width]

\* encoder_ctx(emb): the tensors the encoder model returns for one input.
apply_encoder(enc, src) ==
  [i \in 1..Len(enc.out.items) |->
     Tensor(src, enc.out.items[i], FALSE, enc.out.shapes[i][Len(enc.out.shapes[i])])]

\* a, b, c, d = encoder(...) needs a list of exactly four tensors.
unpack4(enc) ==
  IF enc.out.is_list /\ Len(enc.out.items) = 4 THEN "none" ELSE "TypeError"

\* Lambda(self.cosine_similarity)([x, y]) as a node of the graph.
cosine_node(x, y) == [op |-> "cosine_similarity", x |-> x, y |-> y]

\* x * y inside cosine_similarity: the last dimensions must broadcast.
Broadcastable(wx, wy) == wx = wy \/ wx = 1 \/ wy = 1

\* The encoder model applied to the reply embedding.
reply_encoder_separate(encoder_ctx) ==
  [encoder_ctx EXCEPT !.name = "sentence_lstm_encoder_rpl"]

reply_encoder(encoder_ctx) == encoder_ctx

\* The similarities listed before the context is conditioned.
sims_without_full(enc_ctx, enc_rpl, c1, c2, c3, r1, r2, r3) ==
  <<cosine_node(c1, r1), cosine_node(c1, r2), cosine_node(c1, r3),
    cosine_node(c2, r1), cosine_node(c2, r2), cosine_node(c2, r3),
    cosine_node(c3, r1), cosine_node(c3, r2), cosine_node(c3, r3)>>

sims_list(enc_ctx, enc_rpl, c1, c2, c3, r1, r2, r3) ==
  <<cosine_node(enc_ctx, enc_rpl),
    cosine_node(c1, r1), cosine_node(c1, r2), cosine_node(c1, r3),
    cosine_node(c2, r1), cosine_node(c2, r2), cosine_node(c2, r3),
    cosine_node(c3, r1), cosine_node(c3, r2), cosine_node(c3, r3)>>

\* self.build_deep_sim_net is not defined by QAMemnet: it resolves only if
\* the base class supplies it.
build_deep_sim_net(b) ==
  [err |-> IF b.dsn THEN "none" ELSE "AttributeError", name |-> "deep_sim_net"]

FirstErr(errs) ==
  IF \E i \in 1..Len(errs) : errs[i] # "none"
  THEN errs[CHOOSE i \in 1..Len(errs) :
              errs[i] # "none" /\ \A j \in 1..(i - 1) : errs[j] = "none"]
  ELSE "none"

\* self.embedder and encoder_ctx as get_qa_memnet_model builds them.
embedder_of(a) == build_embedder(a.seq_len, a.voc_siz, FALSE, FALSE, a.emb_dim, "word")

encoder_ctx_of(a) ==
  build_rnn_encoder(embedder_of(a).output_shape, FALSE, a.bdr, a.lstm_dim, "sentence",
                    a.rdp, a.edp, a.layers, TRUE, a.cudnn, a.pool)

get_qa_memnet_model(a, b) ==
  LET embedder == embedder_of(a)
      encoder_ctx == encoder_ctx_of(a)
      dm == dense_comb(a.dlrs, encoder_ctx, a)
      encoder_rpl == reply_encoder(encoder_ctx)
      err1 == FirstErr(<<embedder.err, encoder_ctx.err, dm.err,
                         unpack4(encoder_ctx), unpack4(encoder_rpl)>>)
  IN IF err1 # "none" THEN [err |-> err1]
     ELSE
     LET oc == apply_encoder(encoder_ctx, "ctx")
         or == apply_encoder(encoder_rpl, "rpl")
         enc_ctx == oc[1]
         enc_rpl == or[1]
         sims == sims_list(enc_ctx, enc_rpl, oc[2], oc[3], oc[4], or[2], or[3], or[4])
         cond_ctx == Tensor("ctx", "concat", TRUE, dm.output_width)
         dsn == build_deep_sim_net(b)
         err2 == IF a.dsn THEN dsn.err
                 ELSE IF Broadcastable(cond_ctx.width, enc_rpl.width) THEN "none"
                      ELSE "ValueError"
     IN IF err2 # "none" THEN [err |-> err2]
        ELSE [err |-> "none",
              embedder |-> embedder,
              encoder_ctx |-> encoder_ctx,
              dm |-> dm,
              ctx |-> [embedder |-> embedder.name, encoder |-> encoder_ctx.name],
              rpl |-> [embedder |-> embedder.name, encoder |-> encoder_rpl.name],
              css |-> IF a.dsn
                      THEN Some([op |-> dsn.name, x |-> cond_ctx, y |-> enc_rpl])
                      ELSE NoneV,
              sims |-> IF a.dsn THEN sims
                       ELSE Append(sims, cosine_node(cond_ctx, enc_rpl)),
              fc1 |-> [units |-> 16, activation |-> "relu"],
              relevance |-> [units |-> 1, activation |-> "sigmoid"]]

\* The weight-bearing objects of Model(inputs=[inp_ctx, inp_rpl], outputs=fc2):
\* those on a path from the inputs to the relevance output.
ModelObjects(g) ==
  {g.ctx.embedder, g.rpl.embedder, g.ctx.encoder, g.rpl.encoder, "fc1", "relevance"}
  \cup (IF \E i \in 1..Len(g.sims) : g.sims[i].x.cond \/ g.sims[i].y.cond
        THEN {g.dm.name} ELSE {})

IsEmbedder(g, o) == o = g.embedder.name

Trainable(g, o) == IF IsEmbedder(g, o) THEN g.embedder.embedding.trainable ELSE TRUE

\* The framework's initial weights; the embedding table has voc_siz rows of
\* emb_dim values.
InitialTable(a) == [tok \in 1..a.voc_siz[1] |-> [k \in 1..a.emb_dim |-> 0]]

InitialWeights(a, g) ==
  [o \in ModelObjects(g) |-> IF IsEmbedder(g, o) THEN InitialTable(a) ELSE 0]

(***************************************************************************)
(* __init__                                                                *)
(***************************************************************************)
Construct(a, b) ==
  LET model == get_qa_memnet_model(a, b)
  IN IF model.err # "none"
     THEN [pc |-> "failed", err |-> model.err]
     ELSE [pc |-> "built", err |-> "none",
           attrs |-> {"emb_matrix", "voc_siz", "emb_dim", "bdr", "pool", "cudnn", "dsn",
                      "dsl", "dsd", "dsp", "edp", "rdp", "dropout", "lstm_dim", "seq_len",
                      "layers", "dlrs", "dense_dim", "embedder", "model"},
           dense_dim |-> dense_dim(a),
           embedder |-> model.embedder,
           model |-> model,
           compiled |-> [optimizer |-> "adam", loss |-> "contrastive_loss"]]

\* The embedding matrix handed to the constructor: None, or a voc x emb_dim
\* table that differs from the initial one.
EmbMatrix == [tok \in 1..VocSiz |-> [k \in 1..EmbDim |-> (tok + k) % WMod]]

\* Weights and activations take the values 0..WMod-1.
Wrap(x) == x % WMod

ArgsOf(bdr, pool, cudnn, dsn, layers, dlrs, lstm_dim, voc, edp, rdp, em) ==
  [emb_matrix |-> em, voc_siz |-> voc, emb_dim |-> EmbDim, bdr |-> bdr, pool |-> pool,
   cudnn |-> cudnn, dsn |-> dsn, edp |-> edp, rdp |-> rdp, lstm_dim |-> lstm_dim,
   seq_len |-> SeqLen, layers |-> layers, dlrs |-> dlrs]

BuildArgs ==
  {ArgsOf(bdr, pool, cudnn, dsn, layers, dlrs, lstm_dim, voc, edp, rdp, NoneV) :
     bdr \in BOOLEAN, pool \in BOOLEAN, cudnn \in BOOLEAN, dsn \in BOOLEAN,
     layers \in 0..MaxLayers, dlrs \in 0..MaxDlrs, lstm_dim \in 1..MaxLstmDim,
     voc \in {NoneV, Some(VocSiz)}, edp \in 0..MaxRate, rdp \in 0..MaxRate}

Bases == [dsn : BOOLEAN, obj_model : BOOLEAN]

InitBuild ==
  /\ args \in BuildArgs
  /\ base \in Bases
  /\ self = [pc |-> "new"]
  /\ weights = NoneV
  /\ files = [p \in Paths |-> NoneV]
  /\ ret = [op |-> "none"]
  /\ fn = NoneV

QAMemnet_init ==
  /\ self.pc = "new"
  /\ self' = Construct(args, base)
  /\ weights' = IF self'.pc = "built" THEN InitialWeights(args, self'.model) ELSE NoneV
  /\ ret' = [op |-> "__init__", err |-> self'.err]
  /\ UNCHANGED <<args, base, files, fn>>

NextBuild == QAMemnet_init

SpecBuild == InitBuild /\ [][NextBuild]_vars

(***************************************************************************)
(* The forward pass.  The recurrent cell is the framework's; it is         *)
(* represented by a deterministic recurrence over its weight, its previous *)
(* state and its input.                                                    *)
(***************************************************************************)
\* Embedding lookup of one row of tokens.
embed_row(table, toks) == [t \in 1..Len(toks) |-> table[toks[t]]]

RECURSIVE cell_scan(_, _, _, _)
cell_scan(w, units, xs, h) ==
  IF xs = <<>> THEN <<>>
  ELSE With([j \in 1..units |-> Wrap(h[j] + w + SumSeq(Head(xs)) + j)],
            LAMBDA h1 : <<h1>> \o cell_scan(w, units, Tail(xs), h1))

\* One recurrent layer with return_sequences=True over one row; Bidirectional
\* concatenates the forward states with the time-aligned backward states.
run_layer(layer, w, xs) ==
  LET h0 == [j \in 1..layer.units |-> 0]
  IN IF layer.wrapper = "Bidirectional"
     THEN With(cell_scan(w, layer.units, xs, h0), LAMBDA fwd :
          With(Rev(cell_scan(w, layer.units, Rev(xs), h0)), LAMBDA bwd :
               [t \in 1..Len(fwd) |-> fwd[t] \o bwd[t]]))
     ELSE cell_scan(w, layer.units, xs, h0)

RECURSIVE run_layers(_, _, _)
run_layers(layers, w, xs) ==
  IF layers = <<>> THEN xs
  ELSE With(run_layer(Head(layers), w, xs), LAMBDA ys : run_layers(Tail(layers), w, ys))

\* vests[:, -1, :]
last_timestep(vests) ==
  [b \in 1..Len(vests) |-> vests[b][Len(vests[b])]]

\* rdim = int(width / 2); concatenate([vests[:, -1, :rdim], vests[:, 0, rdim:]])
last_timestep_rev_same_step(vests) ==
  [b \in 1..Len(vests) |->
     LET T == Len(vests[b])
         width == Len(vests[b][1])
         rdim == width \div 2
     IN SubSeq(vests[b][T], 1, rdim) \o SubSeq(vests[b][T], rdim + 1, width)]

last_timestep_rev(vests) ==
  [b \in 1..Len(vests) |->
     LET T == Len(vests[b])
         width == Len(vests[b][1])
         rdim == width \div 2
     IN SubSeq(vests[b][T], 1, rdim) \o SubSeq(vests[b][1], rdim + 1, width)]

apply_last_step(name, vests) ==
  IF name = "last_timestep_rev" THEN last_timestep_rev(vests) ELSE last_timestep(vests)

RECURSIVE MaxSeq(_)
MaxSeq(s) == IF Len(s) = 1 THEN s[1] ELSE Max2(s[1], MaxSeq(Tail(s)))

\* GlobalAveragePooling1D (integer mean) and GlobalMaxPooling1D over time.
GlobalAveragePooling1D(vests) ==
  [b \in 1..Len(vests) |->
     [k \in 1..Len(vests[b][1]) |->
        SumSeq([t \in 1..Len(vests[b]) |-> vests[b][t][k]]) \div Len(vests[b])]]

GlobalMaxPooling1D(vests) ==
  [b \in 1..Len(vests) |->
     [k \in 1..Len(vests[b][1]) |-> MaxSeq([t \in 1..Len(vests[b]) |-> vests[b][t][k]])]]

\* The encoder model on a batch of embedded rows: [concat(sms)] + sms.
\* concatenate(sms) along the feature axis
concatenate3(x, y, z) == [b \in 1..Len(x) |-> x[b] \o y[b] \o z[b]]

encoder_forward(enc, w, emb) ==
  With([b \in 1..Len(emb) |-> run_layers(enc.layers, w, emb[b])], LAMBDA rnn :
  With(apply_last_step(enc.get_last_step, rnn), LAMBDA last :
  With(GlobalAveragePooling1D(rnn), LAMBDA mean :
  With(GlobalMaxPooling1D(rnn), LAMBDA maxp :
       <<concatenate3(last, mean, maxp), last, mean, maxp>>))))

\* The encoder outputs for the rows given on one input of the model.
Encode(g, W, side, rows) ==
  LET br == IF side = "ctx" THEN g.ctx ELSE g.rpl
      emb == [b \in 1..Len(rows) |-> embed_row(W[br.embedder], rows[b])]
  IN encoder_forward(g.encoder_ctx, W[br.encoder], emb)

ViewIndex(view) ==
  CASE view = "concat" -> 1 [] view = "last" -> 2 [] view = "mean" -> 3 [] view = "maxp" -> 4

\* The value of a tensor of the graph on a batch; the merge head and the
\* cosine similarity are kept as terms over their inputs and weights.
\* ec and er are the encoder outputs for the context and the reply rows.
TensorValue(g, W, t, ec, er) ==
  IF t.cond
  THEN [op |-> g.dm.name, w |-> W[g.dm.name], x |-> ec[1], y |-> er[1]]
  ELSE IF t.src = "ctx" THEN ec[ViewIndex(t.view)] ELSE er[ViewIndex(t.view)]

Score(g, W, batch) ==
  With(Encode(g, W, "ctx", batch.ctx), LAMBDA ec :
  With(Encode(g, W, "rpl", batch.rpl), LAMBDA er :
       [relevance |-> W["relevance"], fc1 |-> W["fc1"],
        sims |-> [i \in 1..Len(g.sims) |->
                    [op |-> g.sims[i].op, x |-> TensorValue(g, W, g.sims[i].x, ec, er),
                     y |-> TensorValue(g, W, g.sims[i].y, ec, er)]]]))

(***************************************************************************)
(* The facade: load, load_initial_emb_matrix, save, train_on_batch,        *)
(* predict_score_on_batch                                                  *)
(***************************************************************************)
\* self.obj_model is assigned nowhere in QAMemnet: it resolves only if the
\* base class supplies one, and then to a model that is not self.model.
ObjModelWeights == [o \in {"obj_model"} |-> 0]

load(load_path) ==
  /\ self.pc = "built"
  /\ ret' = [op |-> "load", path |-> load_path,
             err |-> IF ~base.obj_model THEN "AttributeError"
                     ELSE IF files[load_path] = NoneV THEN "OSError" ELSE "none"]
  /\ UNCHANGED <<args, base, self, weights, files, fn>>

load_initial_emb_matrix ==
  /\ self.pc = "built"
  /\ IF args.emb_matrix = NoneV
     THEN /\ ret' = [op |-> "load_initial_emb_matrix", err |-> "ValueError"]
          /\ UNCHANGED weights
     ELSE /\ ret' = [op |-> "load_initial_emb_matrix", err |-> "none"]
          /\ weights' = [weights EXCEPT ![self.embedder.name] = args.emb_matrix[1]]
  /\ UNCHANGED <<args, base, self, files, fn>>

save(save_path) ==
  /\ self.pc = "built"
  /\ IF ~base.obj_model
     THEN /\ ret' = [op |-> "save", path |-> save_path, err |-> "AttributeError"]
          /\ UNCHANGED files
     ELSE /\ ret' = [op |-> "save", path |-> save_path, err |-> "none"]
          /\ files' = [files EXCEPT ![save_path] = Some(ObjModelWeights)]
  /\ UNCHANGED <<args, base, self, weights, fn>>

\* One optimizer step on the objects of self.model: every trainable object
\* moves by a step the batch determines, the others keep their weights.
train_step(g, o, w, d) ==
  IF IsEmbedder(g, o)
  THEN [tok \in DOMAIN w |-> [k \in DOMAIN w[tok] |-> Wrap(w[tok][k] + d)]]
  ELSE Wrap(w + d)

train_on_batch ==
  /\ self.pc = "built"
  /\ \E d \in [{o \in DOMAIN weights : Trainable(self.model, o)} -> 0..1] :
       weights' = [o \in DOMAIN weights |->
                     IF Trainable(self.model, o) THEN train_step(self.model, o, weights[o], d[o])
                     ELSE weights[o]]
  /\ ret' = [op |-> "train_on_batch", err |-> "none"]
  /\ UNCHANGED <<args, base, self, files, fn>>

ConstSeqs == {[t \in 1..SeqLen |-> v] : v \in 1..VocSiz}

\* A batch pairs one context, repeated, with every reply.
Replies == [v \in 1..VocSiz |-> [t \in 1..SeqLen |-> v]]

Batches == {[ctx |-> [i \in 1..VocSiz |-> c], rpl |-> Replies] : c \in ConstSeqs}

predict_score_on_batch(batch) ==
  /\ self.pc = "built"
  /\ ret' = [op |-> "predict_score_on_batch", err |-> "none",
             value |-> Score(self.model, weights, batch)]
  /\ UNCHANGED <<args, base, self, weights, files, fn>>

\* The configurations the facade is exercised under: the constructor's
\* defaults for pool, cudnn, dlrs and the dropout rates, one or several
\* recurrent layers of one unit per direction.
FacadeArgs ==
  {ArgsOf(bdr, TRUE, TRUE, dsn, layers, 1, 1, Some(VocSiz), 0, 1, em) :
     bdr \in BOOLEAN, dsn \in BOOLEAN, layers \in {1, MaxLayers},
     em \in {NoneV, Some(EmbMatrix)}}

Init ==
  /\ args \in FacadeArgs
  /\ base \in {b \in Bases : b.dsn = args.dsn}
  /\ self = Construct(args, base)
  /\ self.pc = "built"
  /\ weights = InitialWeights(args, self.model)
  /\ files = [p \in Paths |-> NoneV]
  /\ ret = [op |-> "__init__", err |-> "none"]
  /\ fn = NoneV

Next ==
  \/ \E p \in Paths : load(p)
  \/ load_initial_emb_matrix
  \/ \E p \in Paths : save(p)
  \/ train_on_batch
  \/ \E batch \in Batches : predict_score_on_batch(batch)

Spec == Init /\ [][Next]_vars

(***************************************************************************)
(* contrastive_loss.  Scores are in units of 1/Scale and range over the    *)
(* sigmoid output's interval [0, 1]; terms are in units of 1/Scale^2; the  *)
(* mean is the pair numerator / denominator.                               *)
(***************************************************************************)
margin == 1

Scores == 0..Scale

\* (1 - y_true) * square(y_pred) + y_true * square(maximum(margin - y_pred, 0))
pair_term_margin_on_negatives(y, p, m) ==
  y * (p * p) + (1 - y) * (Max2(m * Scale - p, 0) * Max2(m * Scale - p, 0))

pair_term(y, p, m) ==
  (1 - y) * (p * p) + y * (Max2(m * Scale - p, 0) * Max2(m * Scale - p, 0))

contrastive_loss(y_true, y_pred) ==
  [num |-> SumSeq([i \in 1..Len(y_pred) |-> pair_term(y_true[i], y_pred[i], margin)]),
   den |-> Len(y_pred)]

InitLoss ==
  /\ \E n \in 1..MaxBatch : \E ys \in [1..n -> {0, 1}] : \E ps \in [1..n -> Scores] :
       fn = [op |-> "contrastive_loss", y_true |-> ys, y_pred |-> ps, done |-> FALSE]
  /\ args = NoneV
  /\ base = NoneV
  /\ self = [pc |-> "none"]
  /\ weights = NoneV
  /\ files = NoneV
  /\ ret = [op |-> "none"]

ContrastiveLoss ==
  /\ fn.op = "contrastive_loss"
  /\ ~fn.done
  /\ fn' = [op |-> fn.op, y_true |-> fn.y_true, y_pred |-> fn.y_pred, done |-> TRUE,
            out |-> contrastive_loss(fn.y_true, fn.y_pred)]
  /\ UNCHANGED <<args, base, self, weights, files, ret>>

NextLoss == ContrastiveLoss

SpecLoss == InitLoss /\ [][NextLoss]_vars

(***************************************************************************)
(* last_timestep / last_timestep_rev on the output of the recurrent stack  *)
(***************************************************************************)
\* A batch x time x width tensor whose entries are pairwise distinct.
CodedTensor(B, T, width, off) ==
  [b \in 1..B |-> [t \in 1..T |-> [k \in 1..width |->
     off + ((b - 1) * T + (t - 1)) * width + k]]]

InitStep ==
  /\ \E bidirectional \in BOOLEAN, layers \in 1..MaxLayers, d \in 1..MaxLstmDim,
        B \in 1..MaxBatch, T \in 1..SeqLen, off \in 0..MaxBase :
       fn = [op |-> "get_last_step", bidirectional |-> bidirectional, layers |-> layers,
             lstm_dim |-> d, done |-> FALSE,
             vests |-> CodedTensor(B, T, rnn_width(EmbDim, bidirectional, d, layers), off)]
  /\ args = NoneV
  /\ base = NoneV
  /\ self = [pc |-> "none"]
  /\ weights = NoneV
  /\ files = NoneV
  /\ ret = [op |-> "none"]

\* last = Lambda(get_last_step)(rnn) inside build_rnn_encoder
GetLastStep ==
  /\ fn.op = "get_last_step"
  /\ ~fn.done
  /\ LET enc == build_rnn_encoder(<<"None", Len(fn.vests[1]), EmbDim>>, FALSE,
                                  fn.bidirectional, fn.lstm_dim, "sentence", 0, 0,
                                  fn.layers, TRUE, TRUE, TRUE)
     IN fn' = [op |-> fn.op, bidirectional |-> fn.bidirectional, layers |-> fn.layers,
               lstm_dim |-> fn.lstm_dim, done |-> TRUE, vests |-> fn.vests,
               step |-> enc.get_last_step,
               out |-> apply_last_step(enc.get_last_step, fn.vests)]
  /\ UNCHANGED <<args, base, self, weights, files, ret>>

NextStep == GetLastStep

SpecStep == InitStep /\ [][NextStep]_vars

(***************************************************************************)
(* Properties                                                              *)
(***************************************************************************)
Views == {"last", "mean", "maxp"}

\* The positions of the similarity list that compare view xv of the context
\* (conditioned or not) with the unconditioned view yv of the reply.
SimsBetween(sims, xv, xcond, yv) ==
  {i \in 1..Len(sims) :
     /\ sims[i].op = "cosine_similarity"
     /\ sims[i].x.src = "ctx" /\ sims[i].x.view = xv /\ sims[i].x.cond = xcond
     /\ sims[i].y.src = "rpl" /\ sims[i].y.view = yv /\ ~sims[i].y.cond}

NinePairings(sims) ==
  \A cv \in Views : \A rv \in Views : Cardinality(SimsBetween(sims, cv, FALSE, rv)) = 1

\* C1 (as stated): with dsn=False the scoring head is fed exactly 10 cosine
\* similarities: the 9 pairings of the unconditioned last/mean/max views and
\* the similarity of the full representations after conditioning, no other.
C1_TenSimilarities ==
  (self.pc = "built" /\ ~args.dsn) =>
     /\ Len(self.model.sims) = 10
     /\ NinePairings(self.model.sims)
     /\ Cardinality(SimsBetween(self.model.sims, "concat", TRUE, "concat")) = 1

\* C1 (amended): with dsn=False the scoring head of a built model is fed
\* exactly 11 cosine similarities: the similarity of the full representations
\* before conditioning, the 9 pairings of the unconditioned last/mean/max
\* views, and the similarity of the full representations after conditioning.
C1_ElevenSimilarities ==
  (self.pc = "built" /\ ~args.dsn) =>
     /\ Len(self.model.sims) = 11
     /\ NinePairings(self.model.sims)
     /\ Cardinality(SimsBetween(self.model.sims, "concat", FALSE, "concat")) = 1
     /\ Cardinality(SimsBetween(self.model.sims, "concat", TRUE, "concat")) = 1

C1_Witness ==
  /\ self.pc = "built" /\ ~args.dsn
  /\ SimsBetween(self.model.sims, "concat", TRUE, "concat") # {}

\* C2: for any bdr, any pool and layers >= 1 the encoder built with
\* return_sequences=False returns the four outputs [concat, last, mean, max],
\* so that both 4-way unpackings succeed and the constructor does not fail on
\* the encoder's outputs.  Stated for the configurations in which nothing
\* else stops the constructor.
C2_EncoderFourOutputs ==
  (/\ self.pc # "new" /\ args.layers >= 1
   /\ args.voc_siz # NoneV /\ args.dlrs >= 1 /\ ~args.dsn) =>
     /\ encoder_ctx_of(args).out.is_list
     /\ encoder_ctx_of(args).out.items = <<"concat", "last", "mean", "maxp">>
     /\ unpack4(encoder_ctx_of(args)) = "none"
     /\ self.err \notin {"AssertionError", "TypeError"}

\* C6: the merge head's output is as wide as the reply's full representation,
\* lstm_dim * 3 * (2 if bdr), for every lstm_dim >= 1, bdr and dlrs >= 0.
C6_MergeWidth ==
  (self.pc # "new" /\ args.pool /\ args.layers >= 1 /\ args.voc_siz # NoneV) =>
     LET dm == dense_comb(args.dlrs, encoder_ctx_of(args), args)
         enc_rpl == apply_encoder(encoder_ctx_of(args), "rpl")[1]
     IN /\ dm.output_width = enc_rpl.width
        /\ dm.output_width = args.lstm_dim * 3 * (IF args.bdr THEN 2 ELSE 1)

\* C7: with dsn=True construction completes and the deep similarity
\* sub-network's output is among the inputs of the scoring layers in place of
\* the post-conditioning cosine similarity; with dsn=False it is not built.
\* Stated for the configurations in which the base class supplies
\* build_deep_sim_net and nothing else stops the constructor.
C7_DsnHead ==
  (/\ self.pc # "new" /\ base.dsn
   /\ args.pool /\ args.layers >= 1 /\ args.dlrs >= 1 /\ args.voc_siz # NoneV) =>
     /\ self.pc = "built"
     /\ IF args.dsn
        THEN /\ self.model.css # NoneV
             /\ \E i \in 1..Len(self.model.sims) : self.model.sims[i] = self.model.css[1]
             /\ SimsBetween(self.model.sims, "concat", TRUE, "concat") = {}
        ELSE self.model.css = NoneV

\* C10: edp and rdp reach a recurrent layer exactly when bdr and cudnn are both
\* False (then as dropout=edp, recurrent_dropout=rdp); with bdr or cudnn the
\* built encoder is the same for every edp and rdp.
C10_DropoutReach ==
  (self.pc # "new") =>
     LET enc == encoder_ctx_of(args)
     IN /\ Len(enc.layers) = args.layers
        /\ \A li \in 1..Len(enc.layers) :
             IF ~args.bdr /\ ~args.cudnn
             THEN enc.layers[li].dropout_args = Some(<<args.edp, args.rdp>>)
             ELSE enc.layers[li].dropout_args = NoneV
        /\ (args.bdr \/ args.cudnn) =>
             \A e \in 0..MaxRate : \A r \in 0..MaxRate :
                encoder_ctx_of([args EXCEPT !.edp = e, !.rdp = r]) = enc
        /\ self.pc = "built" => self.model.encoder_ctx = enc

C10_Witness ==
  /\ self.pc = "built"
  /\ args.bdr \/ args.cudnn
  /\ args.edp = MaxRate /\ args.rdp = MaxRate
  /\ self.model.encoder_ctx.layers[1].dropout_args = NoneV

\* C3: save and load act on the model train_on_batch updates: right after
\* save(p) the file p holds the weights of self.model, and right after load(p)
\* of a saved p the weights of self.model are those the file holds; hence the
\* scores after save(p), training, load(p) are those after save(p).
C3_SaveLoadSameModel ==
  /\ ret.op = "save" => (ret.err = "none" /\ files[ret.path] = Some(weights))
  /\ (ret.op = "load" /\ files[ret.path] # NoneV) =>
        (ret.err = "none" /\ files[ret.path] = Some(weights))

\* Rows of tokens given on both inputs: every constant row, and a row that
\* runs through the vocabulary.
SampleRows == Append(Replies, [t \in 1..SeqLen |-> 1 + (t % VocSiz)])

\* C4: in every state the facade reaches, context and reply go through the
\* same embedding and recurrent weights, and equal token rows given as
\* context and as reply have equal (full, last, mean, max) encodings.
C4_SharedWeights ==
  self.pc = "built" =>
     /\ weights[self.model.ctx.embedder] = weights[self.model.rpl.embedder]
     /\ weights[self.model.ctx.encoder] = weights[self.model.rpl.encoder]
     /\ Encode(self.model, weights, "ctx", SampleRows) = Encode(self.model, weights, "rpl", SampleRows)

C4_Witness ==
  /\ ret.op = "train_on_batch"
  /\ weights[self.model.ctx.encoder] # 0
  /\ weights[self.model.ctx.embedder] = EmbMatrix

\* C8: with voc_siz given, load_initial_emb_matrix makes the embedding weights
\* equal emb_matrix, train_on_batch and predict_score_on_batch leave them as
\* they are, and predict_score_on_batch leaves every weight as it is.
C8_FrozenEmbedding ==
  [][args.voc_siz # NoneV =>
       /\ (ret'.op = "load_initial_emb_matrix" /\ ret'.err = "none") =>
             weights'[self.embedder.name] = args.emb_matrix[1]
       /\ ret'.op \in {"train_on_batch", "predict_score_on_batch"} =>
             weights'[self.embedder.name] = weights[self.embedder.name]
       /\ ret'.op = "predict_score_on_batch" => weights' = weights]_vars

C8_Witness ==
  /\ ret.op = "train_on_batch"
  /\ args.emb_matrix # NoneV
  /\ weights[self.embedder.name] = args.emb_matrix[1]
  /\ weights[self.model.ctx.encoder] # 0

Margins == 0..(margin + 1)

Replace(s, i, v) == [s EXCEPT ![i] = v]

\* The parts of C5 that hold: the loss is the batch mean of the per-pair
\* terms; a label-1 term never increases as the score rises; a label-0 term
\* never increases as the score falls towards 0.
C5_MeanAndMonotone ==
  LET y == fn.y_true
      p == fn.y_pred
  IN /\ fn.out.den = Len(p)
     /\ fn.out.num = SumSeq([i \in 1..Len(p) |-> contrastive_loss(<<y[i]>>, <<p[i]>>).num])
     /\ \A i \in 1..Len(p) : \A q \in Scores :
          (y[i] = 1 /\ q >= p[i]) => contrastive_loss(y, Replace(p, i, q)).num <= fn.out.num
     /\ \A i \in 1..Len(p) : \A q \in Scores :
          (y[i] = 0 /\ q <= p[i]) => contrastive_loss(y, Replace(p, i, q)).num <= fn.out.num

\* C5 (as stated): ... and the margin applies to the non-matching pairs: the
\* term of a label-1 pair does not involve the margin, and a label-0 pair
\* contributes nothing once its score is down past the margin.
C5_MarginOnNonMatching ==
  (fn.op = "contrastive_loss" /\ fn.done) =>
     /\ C5_MeanAndMonotone
     /\ \A i \in 1..Len(fn.y_pred) : \A m \in Margins :
          fn.y_true[i] = 1 => pair_term(1, fn.y_pred[i], m) = pair_term(1, fn.y_pred[i], margin)
     /\ \A i \in 1..Len(fn.y_pred) :
          (fn.y_true[i] = 0 /\ fn.y_pred[i] <= (1 - margin) * Scale) =>
             pair_term(0, fn.y_pred[i], margin) = 0

\* C5 (amended): ... and the margin applies to the matching pairs: a label-1
\* pair contributes nothing exactly when its score has reached the margin,
\* while the term of a label-0 pair is the squared score, which does not
\* involve the margin and is zero only at score 0.
C5_MarginOnMatching ==
  (fn.op = "contrastive_loss" /\ fn.done) =>
     /\ C5_MeanAndMonotone
     /\ \A i \in 1..Len(fn.y_pred) :
          LET term == contrastive_loss(<<fn.y_true[i]>>, <<fn.y_pred[i]>>).num
          IN /\ fn.y_true[i] = 1 => (term = 0 <=> fn.y_pred[i] >= margin * Scale)
             /\ fn.y_true[i] = 0 => (term = fn.y_pred[i] * fn.y_pred[i])
             /\ fn.y_true[i] = 0 =>
                  \A m \in Margins : pair_term(0, fn.y_pred[i], m) = term

C5_Witness ==
  /\ fn.op = "contrastive_loss" /\ fn.done
  /\ Len(fn.y_pred) = 2
  /\ fn.y_true = <<1, 0>>
  /\ fn.y_pred[1] = margin * Scale /\ fn.y_pred[2] > 0
  /\ fn.out.num = fn.y_pred[2] * fn.y_pred[2]

\* C9: on a bidirectional output of width 2d the selected step is the forward
\* half at the last timestep followed by the backward half at the first
\* timestep; on a unidirectional output it is the whole feature vector at the
\* last timestep; the bidirectional selector is used exactly when bdr is set.
C9_LastStep ==
  (fn.op = "get_last_step" /\ fn.done) =>
     /\ fn.step = "last_timestep_rev" <=> fn.bidirectional
     /\ fn.step = "last_timestep" <=> ~fn.bidirectional
     /\ Len(fn.out) = Len(fn.vests)
     /\ \A b \in 1..Len(fn.vests) :
          LET T == Len(fn.vests[b])
              d == fn.lstm_dim
          IN IF fn.bidirectional
             THEN /\ Len(fn.out[b]) = 2 * d
                  /\ \A k \in 1..d : fn.out[b][k] = fn.vests[b][T][k]
                  /\ \A k \in (d + 1)..(2 * d) : fn.out[b][k] = fn.vests[b][1][k]
             ELSE fn.out[b] = fn.vests[b][T]

C9_Witness ==
  /\ fn.op = "get_last_step" /\ fn.done /\ fn.bidirectional
  /\ Len(fn.vests[1]) >= 2
  /\ fn.out[1][2 * fn.lstm_dim] = fn.vests[1][1][2 * fn.lstm_dim]
====
